---- MODULE Spec2Model ----
(***************************************************************************)
(* MongoCatalogApp: the product catalog's data-access engine               *)
(* (services/products.py) and its request layer (app.py).                  *)
(*                                                                         *)
(* The collection is a sequence of documents in the store's natural        *)
(* (insertion) order.  Every engine function is modelled store call by     *)
(* store call: each store call is one atomic step, and several callers     *)
(* (Procs) interleave their store calls freely.                            *)
(*                                                                         *)
(* Store semantics assumed (MongoDB 5.0 or later, PyMongo):                *)
(*   - find_one / update_one / delete_one act on the first matching        *)
(*     document in natural order;                                          *)
(*   - insert_one, and an update that changes an indexed key, raise        *)
(*     DuplicateKeyError under a unique index;                             *)
(*   - building a unique index over duplicate keys fails;                  *)
(*   - {"$set": {}} is accepted and changes nothing;                       *)
(*   - "reviews.$" addresses the first array element matching the query,   *)
(*     "reviews.$[rev]" every element satisfying the array filter.         *)
(* A document carries sku, name, price and reviews; a review carries       *)
(* review_id, rating and verified (category, user_id and comment behave    *)
(* like name and verified and are left out).                               *)
(***************************************************************************)
EXTENDS Integers, Sequences, FiniteSets, TLC

VARIABLES coll, indexes, pc, call, outcome, result, wrote, actor, ncalls

vars == <<coll, indexes, pc, call, outcome, result, wrote, actor, ncalls>>

(* ------------------------------ bounds --------------------------------- *)

MaxDocs == 2
MaxReviews == 2
MaxCalls == 3

Procs == {"p1", "p2"}
Skus == {"A", "B"}

(* ------------------------------ values --------------------------------- *)

EmptyMap == [k \in {} |-> 0]

NoReq == [method |-> "NONE", path |-> <<>>, body |-> EmptyMap]

Review(id, rating, verified) ==
    [review_id |-> id, rating |-> rating, verified |-> verified]

Product(sku, reviews) ==
    [sku |-> sku, name |-> "n1", price |-> "10.00", reviews |-> reviews]

\* Arguments the engine's callers pass.
ReviewInputs ==
    << Review("r1", 3, FALSE), Review("r1", 5, TRUE), Review("r2", 5, FALSE) >>

ProductInputs ==
    << <<>>, << Review("r1", 3, FALSE), Review("r1", 5, TRUE) >> >>

ProductPatches == << EmptyMap, [name |-> "n2"] >>

ReviewPatches == << EmptyMap, [rating |-> 4], [verified |-> TRUE] >>

ReviewIds == {"r1", "r2"}

Criteria ==
    << [review_id |-> "r1"], [review_id |-> "r2"], [verified |-> FALSE],
       [review_id |-> "r1", verified |-> FALSE] >>

(* --------------------------- store primitives -------------------------- *)

Min(S) == CHOOSE m \in S : \A n \in S : m <= n

\* {"sku": sku}
Matching(c, sku) == {i \in 1..Len(c) : c[i].sku = sku}

\* {"sku": sku, "reviews.review_id": review_id}
MatchingReview(c, sku, rid) ==
    {i \in Matching(c, sku) :
        \E j \in 1..Len(c[i].reviews) : c[i].reviews[j].review_id = rid}

First(S) == IF S = {} THEN 0 ELSE Min(S)

find_one(c, sku) ==
    IF Matching(c, sku) = {} THEN <<>> ELSE << c[Min(Matching(c, sku))] >>

RemoveAt(c, i) == SubSeq(c, 1, i - 1) \o SubSeq(c, i + 1, Len(c))

\* $set: only the supplied fields are written.
Merge(d, f) ==
    [k \in (DOMAIN d) \cup (DOMAIN f) |-> IF k \in DOMAIN f THEN f[k] ELSE d[k]]

\* A replacement-style write: the fields not supplied fall back to defaults.
SetProductDropsReviews(doc, fields) ==
    [Merge(doc, fields) EXCEPT !.reviews = <<>>]

SetProduct(doc, fields) == Merge(doc, fields)

\* A push at the front of the array.
PushReviewFront(doc, review) == [doc EXCEPT !.reviews = << review >> \o @]

\* $push
PushReview(doc, review) == [doc EXCEPT !.reviews = Append(@, review)]

\* A positional write that reaches every element with the review_id.
SetPositionalEvery(doc, rid, fields) ==
    [doc EXCEPT !.reviews =
        [j \in 1..Len(@) |->
            IF @[j].review_id = rid THEN Merge(@[j], fields) ELSE @[j]]]

\* $set on "reviews.$.<k>": the first element the query matched.
SetPositional(doc, rid, fields) ==
    LET j == Min({n \in 1..Len(doc.reviews) : doc.reviews[n].review_id = rid})
    IN  [doc EXCEPT !.reviews[j] = Merge(@, fields)]

\* arrayFilters: [{"rev.<k>": v, ...}]
Satisfies(review, criteria) ==
    \A k \in DOMAIN criteria : k \in DOMAIN review /\ review[k] = criteria[k]

\* A filtered write that stops after the first element satisfying the filter.
SetArrayFiltersFirstOnly(doc, criteria, fields) ==
    LET hits == {n \in 1..Len(doc.reviews) : Satisfies(doc.reviews[n], criteria)}
    IN  IF hits = {} THEN doc
        ELSE [doc EXCEPT !.reviews[Min(hits)] = Merge(@, fields)]

\* $set on "reviews.$[rev].<k>": every element satisfying the filter.
SetArrayFilters(doc, criteria, fields) ==
    [doc EXCEPT !.reviews =
        [j \in 1..Len(@) |->
            IF Satisfies(@[j], criteria) THEN Merge(@[j], fields) ELSE @[j]]]

HasDuplicateSku(c) ==
    \E i, j \in 1..Len(c) : i # j /\ c[i].sku = c[j].sku

UniqueIndex == "idx_sku_unique" \in indexes

(* ------------------------------ aggregation ---------------------------- *)

RECURSIVE Unwind(_, _)
\* $match then $unwind: the reviews of every matching document, in order,
\* each paired with its document's name.
Unwind(c, sku) ==
    IF c = <<>> THEN <<>>
    ELSE LET d == Head(c)
             own == IF d.sku = sku
                    THEN [j \in 1..Len(d.reviews) |->
                            [name |-> d.name, rating |-> d.reviews[j].rating]]
                    ELSE <<>>
         IN  own \o Unwind(Tail(c), sku)

RECURSIVE SumRatings(_)
SumRatings(rows) ==
    IF rows = <<>> THEN 0 ELSE Head(rows).rating + SumRatings(Tail(rows))

RECURSIVE Gcd(_, _)
Gcd(a, b) == IF b = 0 THEN a ELSE Gcd(b, a % b)

\* $avg, kept exact: a fraction in lowest terms.
Avg(sum, n) == [num |-> sum \div Gcd(sum, n), den |-> n \div Gcd(sum, n)]

\* $group by sku, then $project.
RatingRow(sku, rows) ==
    [sku |-> sku, name |-> Head(rows).name,
     avg_rating |-> Avg(SumRatings(rows), Len(rows)),
     review_count |-> Len(rows)]

(* ------------------------------ callers -------------------------------- *)

CanCall(p) == pc[p] \in {"idle", "done"} /\ ncalls < MaxCalls

Call(op, sku, key, data, req) ==
    [op |-> op, sku |-> sku, key |-> key, data |-> data, req |-> req]

NoCall == Call("none", "", EmptyMap, EmptyMap, NoReq)

\* The call ends: an outcome and a returned value (<<>> is None).
Finish(p, c, out, res) ==
    /\ actor' = p
    /\ pc' = [pc EXCEPT ![p] = "done"]
    /\ call' = [call EXCEPT ![p] = c]
    /\ outcome' = [outcome EXCEPT ![p] = out]
    /\ result' = [result EXCEPT ![p] = res]

\* The call goes on to its next store call.
Goto(p, c, next) ==
    /\ actor' = p
    /\ pc' = [pc EXCEPT ![p] = next]
    /\ call' = [call EXCEPT ![p] = c]
    /\ outcome' = [outcome EXCEPT ![p] = "none"]
    /\ result' = [result EXCEPT ![p] = <<>>]

Init ==
    /\ coll = <<>>
    /\ indexes = {}
    /\ pc = [p \in Procs |-> "idle"]
    /\ call = [p \in Procs |-> NoCall]
    /\ outcome = [p \in Procs |-> "none"]
    /\ result = [p \in Procs |-> <<>>]
    /\ wrote = [p \in Procs |-> <<>>]
    /\ actor = "none"
    /\ ncalls = 0

(* ------------------------------ create --------------------------------- *)

Inserting == {q \in Procs : pc[q] = "create_insert"}

\* create_product, first store call: the duplicate-SKU pre-check.
create_product(p, product_data, req) ==
    LET c == Call("create", product_data.sku, EmptyMap, product_data, req) IN
    /\ CanCall(p)
    /\ Len(coll) + Cardinality(Inserting) < MaxDocs
    /\ ncalls' = ncalls + 1
    /\ wrote' = [wrote EXCEPT ![p] = <<>>]
    /\ IF find_one(coll, product_data.sku) # <<>>
       THEN Finish(p, c, "conflict", <<>>)
       ELSE Goto(p, c, "create_insert")
    /\ UNCHANGED <<coll, indexes>>

\* create_product, second store call: insert_one.  A DuplicateKeyError is
\* not caught and leaves the function as an unhandled error.
create_product_insert(p) ==
    /\ pc[p] = "create_insert"
    /\ IF UniqueIndex /\ Matching(coll, call[p].sku) # {}
       THEN /\ Finish(p, call[p], "error", <<>>)
            /\ UNCHANGED <<coll, wrote>>
       ELSE /\ coll' = Append(coll, call[p].data)
            /\ wrote' = [wrote EXCEPT ![p] = << call[p].data >>]
            /\ Goto(p, call[p], "create_reread")
    /\ UNCHANGED <<indexes, ncalls>>

\* create_product, third store call: the re-read that is returned.
create_product_reread(p) ==
    /\ pc[p] = "create_reread"
    /\ Finish(p, call[p], "ok", find_one(coll, call[p].sku))
    /\ UNCHANGED <<coll, indexes, wrote, ncalls>>

(* ------------------------------ get ------------------------------------ *)

\* get_product: one store call.
get_product(p, sku, req) ==
    LET c == Call("get", sku, EmptyMap, EmptyMap, req)
        doc == find_one(coll, sku) IN
    /\ CanCall(p)
    /\ ncalls' = ncalls + 1
    /\ wrote' = [wrote EXCEPT ![p] = <<>>]
    /\ IF doc = <<>> THEN Finish(p, c, "not_found", <<>>)
                     ELSE Finish(p, c, "ok", doc)
    /\ UNCHANGED <<coll, indexes>>

(* ------------------------------ update --------------------------------- *)

\* update_product, first store call: update_one with $set.
update_product(p, sku, update_data, req) ==
    LET c == Call("update", sku, EmptyMap, update_data, req)
        i == First(Matching(coll, sku)) IN
    /\ CanCall(p)
    /\ ncalls' = ncalls + 1
    /\ IF i = 0
       THEN /\ Finish(p, c, "not_found", <<>>)
            /\ wrote' = [wrote EXCEPT ![p] = <<>>]
            /\ UNCHANGED coll
       ELSE /\ coll' = [coll EXCEPT ![i] = SetProduct(@, update_data)]
            /\ wrote' = [wrote EXCEPT ![p] = << coll'[i] >>]
            /\ Goto(p, c, "update_reread")
    /\ UNCHANGED indexes

\* update_product, second store call: the re-read that is returned.
update_product_reread(p) ==
    /\ pc[p] = "update_reread"
    /\ Finish(p, call[p], "ok", find_one(coll, call[p].sku))
    /\ UNCHANGED <<coll, indexes, wrote, ncalls>>

(* ------------------------------ delete --------------------------------- *)

\* delete_product: one store call.
delete_product(p, sku, req) ==
    LET c == Call("delete", sku, EmptyMap, EmptyMap, req)
        i == First(Matching(coll, sku)) IN
    /\ CanCall(p)
    /\ ncalls' = ncalls + 1
    /\ wrote' = [wrote EXCEPT ![p] = <<>>]
    /\ IF i = 0
       THEN /\ Finish(p, c, "not_found", <<>>)
            /\ UNCHANGED coll
       ELSE /\ coll' = RemoveAt(coll, i)
            /\ Finish(p, c, "ok", <<>>)
    /\ UNCHANGED indexes

(* ------------------------------ reviews -------------------------------- *)

\* add_review, first store call: update_one with $push.
add_review(p, sku, review_data, req) ==
    LET c == Call("add_review", sku, EmptyMap, review_data, req)
        i == First(Matching(coll, sku)) IN
    /\ CanCall(p)
    /\ i # 0 => Len(coll[i].reviews) < MaxReviews
    /\ ncalls' = ncalls + 1
    /\ IF i = 0
       THEN /\ Finish(p, c, "not_found", <<>>)
            /\ wrote' = [wrote EXCEPT ![p] = <<>>]
            /\ UNCHANGED coll
       ELSE /\ coll' = [coll EXCEPT ![i] = PushReview(@, review_data)]
            /\ wrote' = [wrote EXCEPT ![p] = << coll'[i] >>]
            /\ Goto(p, c, "add_review_reread")
    /\ UNCHANGED indexes

\* add_review, second store call.
add_review_reread(p) ==
    /\ pc[p] = "add_review_reread"
    /\ Finish(p, call[p], "ok", find_one(coll, call[p].sku))
    /\ UNCHANGED <<coll, indexes, wrote, ncalls>>

\* update_review_positional, first store call: update_one with "reviews.$".
update_review_positional(p, sku, review_id, update_data, req) ==
    LET c == Call("positional", sku, review_id, update_data, req)
        i == First(MatchingReview(coll, sku, review_id)) IN
    /\ CanCall(p)
    /\ ncalls' = ncalls + 1
    /\ IF i = 0
       THEN /\ Finish(p, c, "not_found", <<>>)
            /\ wrote' = [wrote EXCEPT ![p] = <<>>]
            /\ UNCHANGED coll
       ELSE /\ coll' = [coll EXCEPT ![i] = SetPositional(@, review_id, update_data)]
            /\ wrote' = [wrote EXCEPT ![p] = << coll'[i] >>]
            /\ Goto(p, c, "positional_reread")
    /\ UNCHANGED indexes

\* update_review_positional, second store call.
update_review_positional_reread(p) ==
    /\ pc[p] = "positional_reread"
    /\ Finish(p, call[p], "ok", find_one(coll, call[p].sku))
    /\ UNCHANGED <<coll, indexes, wrote, ncalls>>

\* update_review_array_filters, first store call: update_one with
\* "reviews.$[rev]" and array_filters.
update_review_array_filters(p, sku, filter_criteria, new_data, req) ==
    LET c == Call("array_filters", sku, filter_criteria, new_data, req)
        i == First(Matching(coll, sku)) IN
    /\ CanCall(p)
    /\ ncalls' = ncalls + 1
    /\ IF i = 0
       THEN /\ Finish(p, c, "not_found", <<>>)
            /\ wrote' = [wrote EXCEPT ![p] = <<>>]
            /\ UNCHANGED coll
       ELSE /\ coll' = [coll EXCEPT ![i] = SetArrayFilters(@, filter_criteria, new_data)]
            /\ wrote' = [wrote EXCEPT ![p] = << coll'[i] >>]
            /\ Goto(p, c, "array_filters_reread")
    /\ UNCHANGED indexes

\* update_review_array_filters, second store call.
update_review_array_filters_reread(p) ==
    /\ pc[p] = "array_filters_reread"
    /\ Finish(p, call[p], "ok", find_one(coll, call[p].sku))
    /\ UNCHANGED <<coll, indexes, wrote, ncalls>>

(* ------------------------------ rating --------------------------------- *)

\* get_rating_for_sku: one aggregate call.
get_rating_for_sku(p, sku, req) ==
    LET c == Call("rating", sku, EmptyMap, EmptyMap, req)
        rows == Unwind(coll, sku) IN
    /\ CanCall(p)
    /\ ncalls' = ncalls + 1
    /\ wrote' = [wrote EXCEPT ![p] = <<>>]
    /\ IF rows = <<>> THEN Finish(p, c, "not_found", <<>>)
                      ELSE Finish(p, c, "ok", << RatingRow(sku, rows) >>)
    /\ UNCHANGED <<coll, indexes>>

\* get_all_products: one store call, the documents in natural order.
get_all_products(p, req) ==
    /\ CanCall(p)
    /\ ncalls' = ncalls + 1
    /\ wrote' = [wrote EXCEPT ![p] = <<>>]
    /\ Finish(p, Call("list", "", EmptyMap, EmptyMap, req), "ok", coll)
    /\ UNCHANGED <<coll, indexes>>

\* $project of get_ratings_summary: avg_rating is null (<<>>) without reviews.
SummaryRow(doc) ==
    [sku |-> doc.sku, name |-> doc.name, price |-> doc.price,
     review_count |-> Len(doc.reviews),
     avg_rating |-> IF Len(doc.reviews) > 0
                    THEN << Avg(SumRatings(doc.reviews), Len(doc.reviews)) >>
                    ELSE <<>>]

\* get_ratings_summary: one aggregate call.
get_ratings_summary(p, req) ==
    /\ CanCall(p)
    /\ ncalls' = ncalls + 1
    /\ wrote' = [wrote EXCEPT ![p] = <<>>]
    /\ Finish(p, Call("summary", "", EmptyMap, EmptyMap, req), "ok",
              [i \in 1..Len(coll) |-> SummaryRow(coll[i])])
    /\ UNCHANGED <<coll, indexes>>

(* ------------------------------ indexes -------------------------------- *)

\* ensure_indexes: the unique index on sku cannot be built over duplicates;
\* the failure is raised before the other two indexes are declared.
ensure_indexes(p, req) ==
    LET c == Call("ensure_indexes", "", EmptyMap, EmptyMap, req) IN
    /\ CanCall(p)
    /\ ncalls' = ncalls + 1
    /\ wrote' = [wrote EXCEPT ![p] = <<>>]
    /\ IF ~UniqueIndex /\ HasDuplicateSku(coll)
       THEN /\ Finish(p, c, "error", <<>>)
            /\ UNCHANGED indexes
       ELSE /\ indexes' = indexes \cup
                    {"idx_sku_unique", "idx_reviews_review_id", "idx_price"}
            /\ Finish(p, c, "ok", <<>>)
    /\ UNCHANGED coll

(* ---------------------------- request layer --------------------------- *)

Lit(s) == [kind |-> "lit", name |-> s]
Param(s) == [kind |-> "param", name |-> s]

Route(method, pattern, handler) ==
    [method |-> method, pattern |-> pattern, handler |-> handler]

\* The same routes with the arrayfilters route registered ahead of the
\* {review_id} route.
RoutesArrayFiltersFirst ==
    << Route("PATCH", << Lit("products"), Param("sku"), Lit("reviews"),
                         Lit("arrayfilters") >>, "update_review_arrayfilters"),
       Route("PATCH", << Lit("products"), Param("sku"), Lit("reviews"),
                         Param("review_id") >>, "update_review_positional"),
       Route("GET", << Lit("products"), Param("sku") >>, "get_product"),
       Route("POST", << Lit("products") >>, "create_product"),
       Route("PATCH", << Lit("products"), Param("sku") >>, "update_product"),
       Route("DELETE", << Lit("products"), Param("sku") >>, "delete_product"),
       Route("POST", << Lit("products"), Param("sku"), Lit("reviews") >>,
             "add_review"),
       Route("GET", << Lit("health") >>, "health_check"),
       Route("GET", << Lit("products") >>, "list_products"),
       Route("GET", << Lit("products"), Lit("ratings"), Lit("summary") >>,
             "ratings_summary"),
       Route("GET", << Lit("products"), Param("sku"), Lit("rating") >>,
             "rating_for_product"),
       Route("POST", << Lit("products"), Lit("indexes") >>, "create_indexes") >>

\* The routes of app.py in the order the decorators register them.
Routes ==
    << Route("GET", << Lit("health") >>, "health_check"),
       Route("GET", << Lit("products") >>, "list_products"),
       Route("GET", << Lit("products"), Param("sku") >>, "get_product"),
       Route("POST", << Lit("products") >>, "create_product"),
       Route("PATCH", << Lit("products"), Param("sku") >>, "update_product"),
       Route("DELETE", << Lit("products"), Param("sku") >>, "delete_product"),
       Route("POST", << Lit("products"), Param("sku"), Lit("reviews") >>,
             "add_review"),
       Route("PATCH", << Lit("products"), Param("sku"), Lit("reviews"),
                         Param("review_id") >>, "update_review_positional"),
       Route("PATCH", << Lit("products"), Param("sku"), Lit("reviews"),
                         Lit("arrayfilters") >>, "update_review_arrayfilters"),
       Route("GET", << Lit("products"), Lit("ratings"), Lit("summary") >>,
             "ratings_summary"),
       Route("GET", << Lit("products"), Param("sku"), Lit("rating") >>,
             "rating_for_product"),
       Route("POST", << Lit("products"), Lit("indexes") >>, "create_indexes") >>

\* A path parameter matches any one segment; a literal matches itself.
PathMatches(pattern, path) ==
    /\ Len(pattern) = Len(path)
    /\ \A i \in 1..Len(pattern) :
          pattern[i].kind = "param" \/ pattern[i].name = path[i]

RouteMatches(r, req) == r.method = req.method /\ PathMatches(r.pattern, req.path)

\* The first route, in registration order, that matches; 0 when none does.
Dispatch(req) == First({i \in 1..Len(Routes) : RouteMatches(Routes[i], req)})

PathParam(r, req, name) ==
    req.path[CHOOSE i \in 1..Len(r.pattern) :
                r.pattern[i].kind = "param" /\ r.pattern[i].name = name]

Restrict(f, keys) == [k \in (DOMAIN f) \cap keys |-> f[k]]

\* conint(ge=1, le=5)
ValidRating(v) == v \in 1..5

\* class Review
ReviewValid(b) ==
    /\ {"review_id", "rating", "verified"} \subseteq DOMAIN b
    /\ ValidRating(b.rating)

\* class ReviewUpdate: every field optional, unknown fields ignored.
ReviewUpdateValid(b) == "rating" \in DOMAIN b => ValidRating(b.rating)

\* class ReviewArrayFilterUpdate: two free-form mappings.
ReviewArrayFilterUpdateValid(b) ==
    {"filter_criteria", "new_data"} \subseteq DOMAIN b

\* class ProductCreate
ProductCreateValid(b) ==
    /\ {"sku", "name", "price", "reviews"} \subseteq DOMAIN b
    /\ \A j \in 1..Len(b.reviews) : ReviewValid(b.reviews[j])

\* A response the engine is not called for: 422, 404 (no route), or the
\* health check.
Respond(p, req, out) ==
    /\ CanCall(p)
    /\ ncalls' = ncalls + 1
    /\ wrote' = [wrote EXCEPT ![p] = <<>>]
    /\ Finish(p, Call("none", "", EmptyMap, EmptyMap, req), out, <<>>)
    /\ UNCHANGED <<coll, indexes>>

app_create_product(p, req) ==
    IF ProductCreateValid(req.body)
    THEN create_product(p,
            [sku |-> req.body.sku, name |-> req.body.name,
             price |-> req.body.price,
             reviews |-> [j \in 1..Len(req.body.reviews) |->
                            Restrict(req.body.reviews[j],
                                     {"review_id", "rating", "verified"})]],
            req)
    ELSE Respond(p, req, "invalid")

app_update_product(p, sku, req) ==
    update_product(p, sku, Restrict(req.body, {"name", "price"}), req)

app_add_review(p, sku, req) ==
    IF ReviewValid(req.body)
    THEN add_review(p, sku,
            Restrict(req.body, {"review_id", "rating", "verified"}), req)
    ELSE Respond(p, req, "invalid")

app_update_review_positional(p, sku, review_id, req) ==
    IF ReviewUpdateValid(req.body)
    THEN update_review_positional(p, sku, review_id,
            Restrict(req.body, {"rating", "verified"}), req)
    ELSE Respond(p, req, "invalid")

app_update_review_arrayfilters(p, sku, req) ==
    IF ReviewArrayFilterUpdateValid(req.body)
    THEN update_review_array_filters(p, sku, req.body.filter_criteria,
                                     req.body.new_data, req)
    ELSE Respond(p, req, "invalid")

\* A request arrives: the router picks the handler, the handler validates
\* the body and makes the engine's first store call.
Receive(p, req) ==
    LET i == Dispatch(req)
        r == Routes[i]
        h == r.handler
        sku == PathParam(r, req, "sku")
    IN  /\ CanCall(p)
        /\ IF i = 0 THEN Respond(p, req, "no_route")
           ELSE CASE h = "health_check" -> Respond(p, req, "ok")
                  [] h = "list_products" -> get_all_products(p, req)
                  [] h = "get_product" -> get_product(p, sku, req)
                  [] h = "create_product" -> app_create_product(p, req)
                  [] h = "update_product" -> app_update_product(p, sku, req)
                  [] h = "delete_product" -> delete_product(p, sku, req)
                  [] h = "add_review" -> app_add_review(p, sku, req)
                  [] h = "update_review_positional" ->
                       app_update_review_positional(p, sku,
                           PathParam(r, req, "review_id"), req)
                  [] h = "update_review_arrayfilters" ->
                       app_update_review_arrayfilters(p, sku, req)
                  [] h = "ratings_summary" -> get_ratings_summary(p, req)
                  [] h = "rating_for_product" -> get_rating_for_sku(p, sku, req)
                  [] h = "create_indexes" -> ensure_indexes(p, req)

\* The engine call a request started goes on with its next store call.
Continue(p) ==
    CASE pc[p] = "create_insert" -> create_product_insert(p)
      [] pc[p] = "create_reread" -> create_product_reread(p)
      [] pc[p] = "update_reread" -> update_product_reread(p)
      [] pc[p] = "add_review_reread" -> add_review_reread(p)
      [] pc[p] = "positional_reread" -> update_review_positional_reread(p)
      [] pc[p] = "array_filters_reread" -> update_review_array_filters_reread(p)
      [] OTHER -> FALSE

Req(method, path, body) == [method |-> method, path |-> path, body |-> body]

ArrayFiltersPath(sku) == << "products", sku, "reviews", "arrayfilters" >>

\* The requests clients send.
Requests ==
    << Req("GET", << "health" >>, EmptyMap),
       Req("GET", << "products" >>, EmptyMap),
       Req("GET", << "products", "A" >>, EmptyMap),
       Req("POST", << "products" >>, Product("A", <<>>)),
       Req("POST", << "products" >>, Product("A", << Review("r1", 3, FALSE) >>)),
       Req("POST", << "products" >>, Product("A", << Review("r1", 0, FALSE) >>)),
       Req("POST", << "products" >>, Product("B", <<>>)),
       Req("PATCH", << "products", "A" >>, [name |-> "n2"]),
       Req("PATCH", << "products", "A" >>, [sku |-> "B"]),
       Req("DELETE", << "products", "A" >>, EmptyMap),
       Req("POST", << "products", "A", "reviews" >>, Review("r1", 5, TRUE)),
       Req("POST", << "products", "A", "reviews" >>, Review("r1", 6, TRUE)),
       Req("POST", << "products", "A", "reviews" >>,
           Review("arrayfilters", 5, FALSE)),
       Req("PATCH", << "products", "A", "reviews", "r1" >>, [rating |-> 4]),
       Req("PATCH", << "products", "A", "reviews", "r1" >>, [rating |-> 9]),
       Req("PATCH", ArrayFiltersPath("A"),
           [filter_criteria |-> [review_id |-> "r1"], new_data |-> [rating |-> 9]]),
       Req("PATCH", ArrayFiltersPath("A"),
           [filter_criteria |-> [verified |-> FALSE],
            new_data |-> [rating |-> 0], rating |-> 2]),
       Req("GET", << "products", "ratings", "summary" >>, EmptyMap),
       Req("GET", << "products", "A", "rating" >>, EmptyMap),
       Req("POST", << "products", "indexes" >>, EmptyMap),
       Req("PUT", << "products", "A" >>, EmptyMap) >>

(* ------------------------- specification ------------------------------- *)

\* Engine level: every caller may start an engine function with any of the
\* arguments above, and the callers' store calls interleave.  (The two
\* whole-collection reads are reached through the request layer below.)
Next ==
    \E p \in Procs :
        \/ \E s \in Skus, i \in 1..Len(ProductInputs) :
              create_product(p, Product(s, ProductInputs[i]), NoReq)
        \/ create_product_insert(p)
        \/ create_product_reread(p)
        \/ \E s \in Skus : get_product(p, s, NoReq)
        \/ \E s \in Skus, i \in 1..Len(ProductPatches) :
              update_product(p, s, ProductPatches[i], NoReq)
        \/ update_product_reread(p)
        \/ \E s \in Skus : delete_product(p, s, NoReq)
        \/ \E s \in Skus, i \in 1..Len(ReviewInputs) :
              add_review(p, s, ReviewInputs[i], NoReq)
        \/ add_review_reread(p)
        \/ \E s \in Skus, r \in ReviewIds, i \in 1..Len(ReviewPatches) :
              update_review_positional(p, s, r, ReviewPatches[i], NoReq)
        \/ update_review_positional_reread(p)
        \/ \E s \in Skus, k \in 1..Len(Criteria), i \in 2..Len(ReviewPatches) :
              update_review_array_filters(p, s, Criteria[k], ReviewPatches[i], NoReq)
        \/ update_review_array_filters_reread(p)
        \/ \E s \in Skus : get_rating_for_sku(p, s, NoReq)
        \/ ensure_indexes(p, NoReq)

Spec == Init /\ [][Next]_vars

\* Only create_product and ensure_indexes are called.
NextCreate ==
    \E p \in Procs :
        \/ \E s \in Skus, i \in 1..Len(ProductInputs) :
              create_product(p, Product(s, ProductInputs[i]), NoReq)
        \/ create_product_insert(p)
        \/ create_product_reread(p)
        \/ ensure_indexes(p, NoReq)

SpecCreate == Init /\ [][NextCreate]_vars

\* Request level: the engine is reached only through app.py's routes.
NextHttp ==
    \E p \in Procs :
        \/ \E i \in 1..Len(Requests) : Receive(p, Requests[i])
        \/ Continue(p)

SpecHttp == Init /\ [][NextHttp]_vars

(* ------------------------------ properties ----------------------------- *)

\* new is old with exactly the fields of f written and nothing else changed.
Patched(new, old, f) ==
    /\ DOMAIN new = (DOMAIN old) \cup (DOMAIN f)
    /\ \A k \in DOMAIN new : new[k] = IF k \in DOMAIN f THEN f[k] ELSE old[k]

\* Every document but the one at i is as it was, in the same place.
OthersUnchanged(i) ==
    /\ Len(coll') = Len(coll)
    /\ \A k \in 1..Len(coll) : k # i => coll'[k] = coll[k]

\* The document at i keeps every top-level field but reviews.
TopLevelKept(i) ==
    /\ DOMAIN coll'[i] = DOMAIN coll[i]
    /\ \A k \in (DOMAIN coll[i]) \ {"reviews"} : coll'[i][k] = coll[i][k]

\* p starts a call of engine function op in this step.
Starts(p, op) ==
    actor' = p /\ pc[p] \in {"idle", "done"} /\ call'[p].op = op

Exists(sku) == \E i \in 1..Len(coll) : coll[i].sku = sku

DoneCreate(p) == pc[p] = "done" /\ call[p].op = "create"

\* C1: two create calls with the same sku, however their store calls
\* interleave: at most one reports success and every other one ends with
\* Conflict, never with success and never with another error.
C1_SecondCreateConflicts ==
    \A p, q \in Procs :
        (p # q /\ DoneCreate(p) /\ DoneCreate(q) /\ call[p].sku = call[q].sku)
        => /\ ~(outcome[p] = "ok" /\ outcome[q] = "ok")
           /\ {outcome[p], outcome[q]} \subseteq {"ok", "conflict"}

\* C2: no two documents of the collection have the same sku.
C2_UniqueSku ==
    \A i, j \in 1..Len(coll) : coll[i].sku = coll[j].sku => i = j

C4_PositionalFirstOnly ==
    [][\A p \in Procs :
        (actor' = p /\ pc'[p] = "positional_reread") =>
            \E i \in 1..Len(coll) :
                LET old == coll[i].reviews
                    new == coll'[i].reviews
                    hits == {j \in 1..Len(old) :
                                old[j].review_id = call'[p].key}
                IN  /\ coll[i].sku = call'[p].sku
                    /\ hits # {}
                    /\ OthersUnchanged(i)
                    /\ TopLevelKept(i)
                    /\ Len(new) = Len(old)
                    /\ \A j \in 1..Len(old) :
                          IF j \in hits /\ \A h \in hits : j <= h
                          THEN Patched(new[j], old[j], call'[p].data)
                          ELSE new[j] = old[j]]_vars

\* C4 witness: two reviews share the review_id; the write changed the first
\* and the second is as it was added.
C4_Witness ==
    \E p \in Procs :
        /\ pc[p] = "positional_reread"
        /\ call[p].data = [rating |-> 4]
        /\ \E i \in 1..Len(coll) :
              /\ coll[i].sku = call[p].sku
              /\ Len(coll[i].reviews) = 2
              /\ coll[i].reviews[1].review_id = call[p].key
              /\ coll[i].reviews[2].review_id = call[p].key
              /\ coll[i].reviews[1].rating = 4
              /\ coll[i].reviews[2] = Review("r1", 5, TRUE)

C6_AddReviewAppends ==
    [][\A p \in Procs :
        (actor' = p /\ pc'[p] = "add_review_reread") =>
            \E i \in 1..Len(coll) :
                /\ coll[i].sku = call'[p].sku
                /\ \A k \in 1..(i - 1) : coll[k].sku # call'[p].sku
                /\ OthersUnchanged(i)
                /\ TopLevelKept(i)
                /\ coll'[i].reviews = coll[i].reviews \o << call'[p].data >>]_vars

\* C6 witness: two callers' add_review writes on the same sku, neither yet
\* returned, both carrying the same review_id; the product holds both
\* reviews, in the order of the writes.
C6_Witness ==
    \E p, q \in Procs :
        /\ p # q
        /\ pc[p] = "add_review_reread" /\ pc[q] = "add_review_reread"
        /\ call[p].sku = call[q].sku
        /\ call[p].data.review_id = call[q].data.review_id
        /\ call[p].data # call[q].data
        /\ \E i \in 1..Len(coll) :
              /\ coll[i].sku = call[p].sku
              /\ coll[i].reviews = << call[p].data, call[q].data >>

\* C7: update writes exactly the supplied top-level fields of the product
\* and leaves its other fields, reviews included, and every other document
\* as they were; with no fields it succeeds and get(sku) is the same before
\* and after.
C7_UpdateSetsOnlyFields ==
    [][\A p \in Procs :
        /\ Starts(p, "update") =>
              IF Exists(call'[p].sku)
              THEN /\ pc'[p] = "update_reread"
                   /\ \E i \in 1..Len(coll) :
                        /\ coll[i].sku = call'[p].sku
                        /\ OthersUnchanged(i)
                        /\ Patched(coll'[i], coll[i], call'[p].data)
                   /\ call'[p].data = EmptyMap =>
                        find_one(coll', call'[p].sku) = find_one(coll, call'[p].sku)
              ELSE outcome'[p] = "not_found" /\ coll' = coll
        /\ (actor' = p /\ pc[p] = "update_reread") =>
              outcome'[p] = "ok" /\ coll' = coll]_vars

\* C7 witness: an update with no fields has returned success with the
\* product, and an update of name alone has been written: the product has
\* the new name, its price and its reviews.
C7_Witness ==
    \E p, q \in Procs :
        /\ pc[p] = "done" /\ call[p].op = "update" /\ outcome[p] = "ok"
        /\ call[p].data = EmptyMap
        /\ result[p] = << Product(call[p].sku, ProductInputs[2]) >>
        /\ pc[q] = "update_reread" /\ call[q].data = [name |-> "n2"]
        /\ call[q].sku = call[p].sku
        /\ coll = << [Product(call[p].sku, ProductInputs[2])
                        EXCEPT !.name = "n2"] >>

\* C8: get_rating_for_sku gives NotFound when no product has the sku and
\* when the product has no reviews; otherwise it returns the product's sku
\* and name, the number of its reviews and the mean of their ratings.
C8_RatingOfTheProduct ==
    \A p \in Procs :
        (actor = p /\ pc[p] = "done" /\ call[p].op = "rating") =>
            LET doc == find_one(coll, call[p].sku) IN
            IF doc = <<>> \/ Len(doc[1].reviews) = 0
            THEN outcome[p] = "not_found"
            ELSE /\ outcome[p] = "ok"
                 /\ result[p][1].sku = call[p].sku
                 /\ result[p][1].name = doc[1].name
                 /\ result[p][1].review_count = Len(doc[1].reviews)
                 /\ result[p][1].avg_rating.num * Len(doc[1].reviews)
                      = SumRatings(doc[1].reviews) * result[p][1].avg_rating.den

\* C9: a PATCH to /products/{sku}/reviews/arrayfilters is handled by
\* update_review_array_filters with the body's filter_criteria and new_data.
C9_ArrayFiltersRouted ==
    \A p \in Procs :
        (call[p].req.method = "PATCH" /\ call[p].req.path = ArrayFiltersPath("A"))
        => /\ call[p].op = "array_filters"
           /\ call[p].key = call[p].req.body.filter_criteria
           /\ call[p].data = call[p].req.body.new_data

\* C10: a writing call that reports success returns the document as its own
\* write left it: never None, never a document another caller has changed.
C10_ReturnsOwnWrite ==
    \A p \in Procs :
        (/\ pc[p] = "done" /\ outcome[p] = "ok"
         /\ call[p].op \in {"create", "update", "add_review", "positional",
                            "array_filters"})
        => result[p] # <<>> /\ result[p] = wrote[p]

====
